---- MODULE Spec2Model ----
(***************************************************************************)
(* Storage-strategy factory and connection lifecycle of shikor-headless.   *)
(*                                                                         *)
(* The repository holds several revisions of the factory and of the        *)
(* relational and document strategies.  Each revision is a value of        *)
(* `factoryRev` (factory) or a class name (strategies):                    *)
(*   factory "v1"   packages/core/database/DatabaseStrategyFactory.ts      *)
(*   factory "v2"   unnamed/part_013 lines 17-175                          *)
(*   factory "v3"   unnamed/part_013 lines 199-354                         *)
(*   "mock"         strategies/mock/MockDatabaseStrategy.ts                *)
(*   "pgKnex"       strategies/postgres/PostgresStrategy.ts lines 16-199   *)
(*   "pgPool"       strategies/postgres/PostgresStrategy.ts lines 206-460  *)
(*   "pgBase"       unnamed/part_009                                       *)
(*   "mongo"        strategies/mongo/MongoStrategy.ts                      *)
(*   "mongoBase"    unnamed/part_010                                       *)
(*   "sqlite"       strategies/sqlite/SqliteStrategy.ts                    *)
(*                                                                         *)
(* The factory never pools or caches instances and instances share no      *)
(* mutable state, so one instance slot is modelled; Drop frees it.         *)
(***************************************************************************)
EXTENDS Integers, Sequences, FiniteSets, TLC

\* ------------------------------------------------------------------ bounds
\* connect chains that may be in flight together on the instance
MaxChains == 1
\* listeners registered per event
MaxListeners == 1
\* attempts one connect chain is followed for (a chain that overlaps another
\* has no bound of its own: the other chain's success resets retryCount)
MaxAttempts == 4
\* clock ticks (ms of Date.now()) that pass while a probe is awaited
MaxElapsed == 1
\* records held by the collections of the store, all together
MaxRecords == 3

\* ----------------------------------------------------------- value domains
\* `options.limit > 1000` in validateQueryOptions
MaxLimit == 1000

\* an optional number: <<>> is undefined, <<n>> is the number n
Undefined == <<>>

FactoryRevs == {"v1", "v2", "v3"}

Classes == {"mock", "pgKnex", "pgPool", "pgBase", "mongo", "mongoBase", "sqlite"}

BuiltinNames == {"mock", "postgres", "mongo", "sqlite"}

CustomNames == {"custom:a"}

\* names that do not start with "custom:" and are no builtin of any revision
OtherNames == {"nonexistent"}

EngineNames == BuiltinNames \cup CustomNames \cup OtherNames

Events == {"connect", "disconnect"}

\* values of config.maxRetries a caller may pass
RetryChoices == {Undefined, <<0>>, <<3>>}

\* runtime types of the one field each builtin schema declares
ValueTypes == {"undefined", "string", "number", "boolean"}

Configs == [value : ValueTypes, maxRetries : RetryChoices]

\* classes a caller registers under a custom name
CustomClasses == {"mock", "mongo"}

NoReg == [strategyClass |-> "none", configValidator |-> "absent"]

Registrations == [strategyClass : CustomClasses, configValidator : {"absent", "typed"}]

VARIABLES
  factoryRev,        \* which revision of DatabaseStrategyFactory is built
  customStrategies,  \* DatabaseStrategyFactory.customStrategies
  schemaRegistry,    \* Config.schemaRegistry (module names with a schema)
  registered,        \* outcome of the last registerCustomEngine() call
  created,           \* the last create() call: suspended in `await instance.ready`
                     \* (outcome "pending") or returned
  inst,              \* the strategy instance in the slot (cls = "none": empty)
  transportUp,       \* whether a connection attempt made now succeeds
  last,              \* what the last operation on the instance did
  store,             \* MockDatabaseStrategy.db, or the tables / collections of
                     \* the backend the instance talks to
  ret,               \* the last create / read / update / delete call: its
                     \* arguments and what it returned
  schemas,           \* the field definitions of the schemas held by
                     \* Config.schemaRegistry, per module and key
  env,               \* process.env: per field, the value of the variable its
                     \* envVar names
  report,            \* the last Config.validate / loadResolvedConfigForModule
                     \* call: its arguments and what it returned
  callers            \* how many callers use the instance at once: the connect
                     \* chains that can be in flight together

\* the state of the configuration system
configVars == <<schemas, env, report>>

vars == <<factoryRev, customStrategies, schemaRegistry, registered, created,
          inst, transportUp, last, store, ret, schemas, env, report,
          callers>>

\* ---------------------------------------------------------------- records
\* A record has an `id` and a `name`.  A filter, a create payload or a patch is
\* a partial record: `id` is <<>> (key absent) or <<n>>, `name` is "absent" or
\* a value.
Collections == {"users", "posts"}

FieldValues == {"a", "b"}

Empty == [id |-> Undefined, name |-> "absent"]

\* payloads of create(): with and without an id of the caller's
Datas == {[id |-> Undefined, name |-> "a"], [id |-> Undefined, name |-> "b"],
          [id |-> <<2>>, name |-> "a"]}

Filters == {Empty, [Empty EXCEPT !.name = "a"], [Empty EXCEPT !.id = <<1>>],
            [id |-> <<2>>, name |-> "b"]}

Patches == {[Empty EXCEPT !.name = "a"], [Empty EXCEPT !.name = "b"]}

\* options.sort: NoSort is `sort` undefined; field "" is a missing field;
\* order "absent" is `order` undefined
NoSort == [field |-> "none", order |-> "none"]

NoOptions == [limit |-> Undefined, offset |-> Undefined, sort |-> NoSort]

\* limit / offset without sort
PageOptions == [limit : {Undefined, <<0>>, <<1>>, <<2>>},
                offset : {Undefined, <<0>>, <<1>>}, sort : {NoSort}]

SortOptions == [limit : {Undefined}, offset : {Undefined},
                sort : [field : {"id", "name"}, order : {"absent", "asc", "desc"}]]

\* options validateQueryOptions is written to refuse
BadOptions == {[NoOptions EXCEPT !.limit = <<0 - 1>>],
               [NoOptions EXCEPT !.limit = <<MaxLimit + 1>>],
               [NoOptions EXCEPT !.offset = <<0 - 1>>],
               [NoOptions EXCEPT !.sort = [field |-> "", order |-> "asc"]],
               [NoOptions EXCEPT !.sort = [field |-> "id", order |-> "up"]]}

EmptyStore == [c \in Collections |-> <<>>]

\* the last CRUD call: arguments, outcome ("fulfilled" / "rejected"), the value
\* returned (`kind` tells its shape: "records" an array of records in `rows`,
\* "record" rows[1], "undefined", "count" a number in `count`, "data" the
\* payload or patch passed in, "filter" the filter passed in), and the
\* backend calls the operation issued
NoRet == [op |-> "none", collection |-> "none", filter |-> Empty, data |-> Empty,
          options |-> NoOptions, outcome |-> "none", kind |-> "none",
          rows |-> <<>>, count |-> 0, calls |-> 0]

RECURSIVE SumLen(_, _)
SumLen(s, cs) ==
  IF cs = {} THEN 0
  ELSE LET c == CHOOSE x \in cs : TRUE IN Len(s[c]) + SumLen(s, cs \ {c})

TotalRecords(s) == SumLen(s, Collections)

\* Object.keys(query).every((key) => item[key] === query[key])
Matches(item, query) ==
  /\ query.id = Undefined \/ query.id = <<item.id>>
  /\ query.name = "absent" \/ query.name = item.name

Matching(rows, query) ==
  LET Test(item) == Matches(item, query) IN SelectSeq(rows, Test)

\* a patch that is dropped
AssignNothing(item, data) == item

\* Object.assign(item, data) / SET of an UPDATE
Assign(item, data) ==
  [id |-> IF data.id = Undefined THEN item.id ELSE data.id[1],
   name |-> IF data.name = "absent" THEN item.name ELSE data.name]

\* BaseDatabaseStrategy.validateQueryOptions: the error it throws, or "none"
validateQueryOptions(options) ==
  IF options.limit # Undefined
       /\ (options.limit[1] < 0 \/ options.limit[1] > MaxLimit)
  THEN "Invalid limit"
  ELSE IF options.offset # Undefined /\ options.offset[1] < 0
  THEN "Invalid offset"
  ELSE IF options.sort # NoSort /\ options.sort.field = ""
  THEN "Invalid sort: missing field"
  ELSE IF options.sort # NoSort
            /\ options.sort.order \notin {"absent", "asc", "desc"}
  THEN "Invalid sort: order"
  ELSE "none"

\* a[field] as a number: strings by their order
Key(item, field) ==
  IF field = "id" THEN item.id
  ELSE IF field = "name" THEN (IF item.name = "a" THEN 1 ELSE 2)
  ELSE 0

\* the comparator handed to results.sort in MockDatabaseStrategy.read
Compare(a, b, sort) ==
  IF Key(a, sort.field) < Key(b, sort.field)
  THEN (IF sort.order = "asc" THEN 0 - 1 ELSE 1)
  ELSE IF Key(a, sort.field) > Key(b, sort.field)
  THEN (IF sort.order = "asc" THEN 1 ELSE 0 - 1)
  ELSE 0

\* Array.prototype.sort is stable: x goes before the first element it precedes
RECURSIVE SortInto(_, _, _)
SortInto(x, sorted, sort) ==
  IF sorted = <<>> THEN <<x>>
  ELSE IF Compare(x, Head(sorted), sort) < 0 THEN <<x>> \o sorted
  ELSE <<Head(sorted)>> \o SortInto(x, Tail(sorted), sort)

RECURSIVE Sorted(_, _, _)
Sorted(rows, n, sort) ==
  IF n = 0 THEN <<>>
  ELSE SortInto(rows[n], Sorted(rows, n - 1, sort), sort)

\* rows.slice(from): from >= 0
SliceFrom(rows, from) ==
  IF from >= Len(rows) THEN <<>> ELSE SubSeq(rows, from + 1, Len(rows))

\* rows.slice(0, to): to >= 0
SliceTo(rows, to) ==
  IF to >= Len(rows) THEN rows ELSE SubSeq(rows, 1, to)

\* the limit applied before the offset
mockReadLimitFirst(rows, query, options) ==
  LET matched == Matching(rows, query)
      limited == IF options.limit # Undefined
                 THEN SliceTo(matched, options.limit[1]) ELSE matched
  IN IF options.offset # Undefined THEN SliceFrom(limited, options.offset[1])
     ELSE limited

\* MockDatabaseStrategy.read after validation: filter, sort, offset, limit
mockRead(rows, query, options) ==
  LET matched == Matching(rows, query)
      ordered == IF options.sort # NoSort
                 THEN Sorted(matched, Len(matched), options.sort) ELSE matched
      skipped == IF options.offset # Undefined
                 THEN SliceFrom(ordered, options.offset[1]) ELSE ordered
  IN IF options.limit # Undefined THEN SliceTo(skipped, options.limit[1])
     ELSE skipped

\* ------------------------------------------------------------ the instance
\* Fields of a strategy instance.  `ready` is the state of the promise the
\* `ready` field (or the `connectionPromise` behind the `ready` getter) holds:
\* "undefined", "pending", "fulfilled" or "rejected".  `readSettled` collects
\* the outcomes of the promises that reads of instance.ready handed out.
\* `chains[k]` is a connect chain in flight or Idle; `started` tells whether a
\* chain was ever started; `listeners[e]` is the number of listeners registered
\* for e (listener k is the k-th registered); `client` the backend client
\* object; `db` whether a backend session was established; `errored` whether
\* status has been "error" at some time in the life of the instance.
\* the places for connect chains of an instance: one more than MaxChains, for
\* the specification of overlapping calls
Slots == 1..(MaxChains + 1)

Idle == [pc |-> "idle", attempts |-> 0, solo |-> FALSE,
         current |-> FALSE, read |-> FALSE, awaited |-> FALSE, stale |-> FALSE]

NoInst == [cls |-> "none", status |-> "none", retryCount |-> 0,
           maxRetries |-> Undefined, ready |-> "undefined", readSettled |-> {},
           chains |-> [k \in Slots |-> Idle], started |-> FALSE,
           listeners |-> [e \in Events |-> 0], client |-> "none", db |-> FALSE,
           errored |-> FALSE]

\* What the last operation on the instance did: the status before and after,
\* the listeners it invoked, its outcome; for a step of a connect chain the
\* attempts the chain has made, the backoff delay it starts, whether it is solo;
\* for a healthCheck the latency it returned.
NoOp == [op |-> "none", from |-> "none", to |-> "none", invoked |-> <<>>,
         outcome |-> "none", attempts |-> 0, delay |-> 0, solo |-> FALSE,
         latency |-> 0]

NoCreated == [engine |-> "none", outcome |-> "none", error |-> "none",
              constructed |-> FALSE, cls |-> "none", status |-> "none",
              reg |-> NoReg, schema |-> FALSE, valid |-> FALSE]

\* the last registerCustomEngine(): its name, whether the registry held the
\* name when it was called, the error it threw
NoRegistered == [engine |-> "none", had |-> FALSE, error |-> "none"]

\* classes whose `ready` is a getter over connectionPromise
GetterClasses == {"pgPool", "mongo"}

\* classes whose connect runs connectWithRetry
RetryClasses == {"pgKnex", "pgBase", "mongo", "mongoBase"}

MongoClasses == {"mongo", "mongoBase"}

\* classes that build their client (pool / knex instance) in the constructor
PoolClasses == {"pgKnex", "pgPool", "pgBase"}

\* `this.retryCount < 3` / `this.retryCount < (this.config.maxRetries ?? 3)`
DefaultMaxRetries == 3

\* x ?? DefaultMaxRetries
OrDefault(x) == IF x = Undefined THEN DefaultMaxRetries ELSE x[1]

\* the bound the catch block compares this.retryCount with
RetryCap(i) ==
  CASE i.cls = "pgKnex" -> DefaultMaxRetries
    [] i.cls \in {"pgBase", "mongo", "mongoBase"} -> OrDefault(i.maxRetries)
    [] OTHER -> 0

RECURSIVE Pow(_, _)
Pow(b, e) == IF e = 0 THEN 1 ELSE b * Pow(b, e - 1)

\* a linear backoff in place of the exponential one
RetryDelayLinear(n) == 2 * n * 100

\* const delay = Math.pow(2, this.retryCount) * 100
RetryDelay(n) == Pow(2, n) * 100

\* emitter.emit(e): every registered listener once, in registration order;
\* `seen` is the status a listener reads when it runs
emit(i, e, seen) ==
  [k \in 1..i.listeners[e] |-> [event |-> e, listener |-> k, seen |-> seen]]

\* the constructors
Construct(c, cfg, up) ==
  CASE c = "mock" ->
         [NoInst EXCEPT !.cls = c, !.status = "ready", !.ready = "fulfilled"]
    [] c \in {"pgKnex", "pgBase"} ->
         [NoInst EXCEPT !.cls = c, !.status = "connecting", !.ready = "fulfilled",
                        !.client = "open", !.maxRetries = cfg.maxRetries]
    [] c = "pgPool" ->
         [NoInst EXCEPT !.cls = c, !.status = "connecting", !.client = "open"]
    [] c = "mongo" ->
         [NoInst EXCEPT !.cls = c, !.status = "connecting",
                        !.maxRetries = <<OrDefault(cfg.maxRetries)>>]
    [] c = "mongoBase" ->
         [NoInst EXCEPT !.cls = c, !.status = "connecting", !.ready = "fulfilled",
                        !.maxRetries = <<OrDefault(cfg.maxRetries)>>]
    [] c = "sqlite" ->
         \* this.ready = this.connect(): connect runs to its end in the constructor
         IF up
         THEN [NoInst EXCEPT !.cls = c, !.status = "ready", !.ready = "fulfilled",
                             !.client = "open", !.db = TRUE]
         ELSE [NoInst EXCEPT !.cls = c, !.status = "error", !.errored = TRUE, !.ready = "rejected"]

ActiveChains(i) == {k \in Slots : i.chains[k].pc # "idle"}

\* whether one more connect chain fits the bound
CanStart(i) == Cardinality(ActiveChains(i)) < callers

FreeSlot(i) ==
  CHOOSE k \in Slots :
    /\ i.chains[k].pc = "idle"
    /\ \A j \in Slots : j < k => i.chains[j].pc # "idle"

\* connectWithRetry() up to its first await (and the connect() of pgPool, which
\* is one attempt without retry): status = "connecting", the attempt is
\* issued, the promise of the chain is pending.  `asReady` tells whether the
\* caller stores that promise in `ready` / `connectionPromise`.  A chain is
\* `solo` while it is the only connect the instance has ever run.
connectWithRetry(i, asReady) ==
  [i EXCEPT !.status = "connecting",
            !.started = TRUE,
            !.ready = IF asReady THEN "pending" ELSE i.ready,
            !.client = IF i.cls \in MongoClasses THEN "open" ELSE i.client,
            !.chains = [k \in Slots |->
               IF k = FreeSlot(i)
               THEN [Idle EXCEPT !.pc = "attempt", !.attempts = 1,
                                 !.solo = ~i.started, !.current = asReady]
               ELSE [i.chains[k] EXCEPT
                       !.solo = FALSE,
                       !.current = IF asReady THEN FALSE ELSE i.chains[k].current]]]

\* the promise in `ready` is handed to a reader
Hand(i, awaits) ==
  IF i.ready = "pending"
  THEN [i EXCEPT !.chains = [k \in Slots |->
                   IF i.chains[k].current
                   THEN [i.chains[k] EXCEPT !.read = TRUE,
                                            !.awaited = awaits \/ i.chains[k].awaited]
                   ELSE i.chains[k]]]
  ELSE [i EXCEPT !.readSettled = i.readSettled \cup {i.ready}]

\* reading instance.ready: the instance after the read
readyGet(i, awaits) ==
  IF i.cls \in GetterClasses /\ i.ready = "undefined"
  THEN IF i.cls = "pgPool" /\ i.status = "ready"
       THEN \* connect() returns at once: `if (this.status === "ready") return`
            Hand([i EXCEPT !.ready = "fulfilled"], awaits)
       ELSE Hand(connectWithRetry(i, TRUE), awaits)
  ELSE Hand(i, awaits)

\* chain ch settles with outcome o: the promise in `ready`, the readers
Settle(i, k, o) ==
  [i EXCEPT !.ready = IF i.chains[k].current THEN o ELSE i.ready,
            !.readSettled = IF i.chains[k].read THEN i.readSettled \cup {o}
                            ELSE i.readSettled,
            !.chains[k] = Idle]

\* the create() call suspended in `await instance.ready` returns
FinishCreate(c, o, st) ==
  IF o = "pending" THEN c
  ELSE [c EXCEPT !.outcome = IF o = "fulfilled" THEN "resolved" ELSE "rejected",
                 !.error = IF o = "fulfilled" THEN "none" ELSE "transport",
                 !.status = st]

Op(name, i, j, invoked) ==
  [NoOp EXCEPT !.op = name, !.from = i.status, !.to = j.status,
               !.invoked = invoked]

\* --------------------------------------------------- operations on the instance
\* new XStrategy(config, logger), by a caller that does not use the factory
New(c, cfg) ==
  /\ inst.cls = "none"
  /\ inst' = Construct(c, cfg, transportUp)
  /\ last' = [NoOp EXCEPT !.op = "new", !.to = inst'.status]
  /\ store' = IF c = "mock" THEN EmptyStore ELSE store
  /\ UNCHANGED <<ret, callers, configVars, factoryRev, customStrategies, schemaRegistry, registered,
                 created, transportUp>>

\* a read of instance.ready
ReadReady ==
  /\ inst.cls # "none"
  /\ (inst.cls \in GetterClasses /\ inst.ready = "undefined") => CanStart(inst)
  /\ inst' = readyGet(inst, FALSE)
  /\ last' = Op("ready", inst, inst', <<>>)
  /\ UNCHANGED <<store, ret, callers, configVars, factoryRev, customStrategies, schemaRegistry, registered,
                 created, transportUp>>

\* connect()
Connect ==
  /\ inst.cls # "none"
  /\ CASE inst.cls = "mock" ->
            \* logs only
            /\ inst' = inst
            /\ last' = [Op("connect", inst, inst, <<>>) EXCEPT !.outcome = "fulfilled"]
       [] inst.cls = "sqlite" ->
            \* no await in connect(): the attempt completes within the call
            IF transportUp
            THEN /\ inst' = [inst EXCEPT !.status = "ready", !.client = "open",
                                         !.db = TRUE]
                 /\ last' = [Op("connect", inst, inst',
                                emit(inst, "connect", "ready"))
                             EXCEPT !.outcome = "fulfilled", !.attempts = 1]
            ELSE /\ inst' = [inst EXCEPT !.status = "error", !.errored = TRUE]
                 /\ last' = [Op("connect", inst, inst',
                                emit(inst, "disconnect", "error"))
                             EXCEPT !.outcome = "rejected", !.attempts = 1]
       [] inst.cls = "pgPool" /\ inst.status = "ready" ->
            \* if (this.status === "ready") return
            /\ inst' = inst
            /\ last' = [Op("connect", inst, inst, <<>>) EXCEPT !.outcome = "fulfilled"]
       [] inst.cls \in {"pgKnex", "pgBase", "mongoBase"} ->
            \* this.ready = this.connectWithRetry()
            /\ CanStart(inst)
            /\ inst' = connectWithRetry(inst, TRUE)
            /\ last' = Op("connect", inst, inst', <<>>)
       [] OTHER ->
            \* mongo: return this.connectWithRetry(); pgPool: the attempt
            /\ CanStart(inst)
            /\ inst' = connectWithRetry(inst, FALSE)
            /\ last' = Op("connect", inst, inst', <<>>)
  /\ UNCHANGED <<store, ret, callers, configVars, factoryRev, customStrategies, schemaRegistry, registered,
                 created, transportUp>>

\* the attempt of chain k (pool.connect / db.raw / client.connect) succeeds
AttemptSucceeds(k) ==
  /\ inst.chains[k].pc = "attempt"
  /\ transportUp
  /\ inst.client # "closed" \/ inst.cls \in MongoClasses
  /\ inst' = [Settle(inst, k, "fulfilled") EXCEPT
                !.status = "ready",
                !.retryCount = IF inst.cls \in RetryClasses THEN 0 ELSE @,
                !.db = TRUE]
  /\ last' = [Op("attempt", inst, inst', emit(inst, "connect", "ready"))
              EXCEPT !.outcome = "fulfilled", !.attempts = inst.chains[k].attempts,
                     !.solo = inst.chains[k].solo]
  /\ created' = IF inst.chains[k].awaited
                THEN FinishCreate(created, "fulfilled", "ready") ELSE created
  /\ UNCHANGED <<store, ret, callers, configVars, factoryRev, customStrategies, schemaRegistry, registered,
                 transportUp>>

\* the attempt of chain k fails: the catch block of connectWithRetry / connect
AttemptFails(k) ==
  /\ inst.chains[k].pc = "attempt"
  /\ ~transportUp \/ inst.client = "closed"
  /\ IF inst.cls \in RetryClasses /\ inst.retryCount < RetryCap(inst)
     THEN \* this.retryCount++; await the backoff timer
          /\ inst' = [inst EXCEPT
                        !.retryCount = @ + 1,
                        !.chains[k].pc = "sleep"]
          /\ last' = [Op("attempt", inst, inst', <<>>)
                      EXCEPT !.outcome = "retry",
                             !.attempts = inst.chains[k].attempts,
                             !.delay = RetryDelay(inst.retryCount + 1),
                             !.solo = inst.chains[k].solo]
          /\ UNCHANGED created
     ELSE \* this.status = "error"; throw error
          /\ inst' = [Settle(inst, k, "rejected") EXCEPT !.status = "error", !.errored = TRUE]
          /\ last' = [Op("attempt", inst, inst',
                         IF inst.cls \in MongoClasses
                         THEN emit(inst, "disconnect", "error") ELSE <<>>)
                      EXCEPT !.outcome = "rejected",
                             !.attempts = inst.chains[k].attempts,
                             !.solo = inst.chains[k].solo]
          /\ created' = IF inst.chains[k].awaited
                        THEN FinishCreate(created, "rejected", "error") ELSE created
  /\ UNCHANGED <<store, ret, callers, configVars, factoryRev, customStrategies, schemaRegistry, registered,
                 transportUp>>

\* the backoff timer of chain k fires: return this.connectWithRetry()
Wake(k) ==
  /\ inst.chains[k].pc = "sleep"
  /\ inst.chains[k].attempts < MaxAttempts
  /\ inst' = [inst EXCEPT !.status = "connecting",
                !.client = IF inst.cls \in MongoClasses THEN "open" ELSE @,
                !.chains[k].pc = "attempt",
                !.chains[k].attempts = @ + 1]
  /\ last' = Op("wake", inst, inst', <<>>)
  /\ UNCHANGED <<store, ret, callers, configVars, factoryRev, customStrategies, schemaRegistry, registered,
                 created, transportUp>>

\* disconnect() resolves: no chain is cancelled; a chain suspended in its
\* backoff timer is marked `stale` and goes on when the timer fires
MarkStale(i) ==
  [i EXCEPT !.chains = [k \in Slots |->
                          IF i.chains[k].pc = "sleep"
                          THEN [i.chains[k] EXCEPT !.stale = TRUE]
                          ELSE i.chains[k]]]

\* disconnect()
Disconnect ==
  /\ inst.cls # "none"
  /\ CASE inst.cls = "mock" ->
            \* logs only
            /\ inst' = inst
            /\ last' = [Op("disconnect", inst, inst, <<>>) EXCEPT !.outcome = "fulfilled"]
       [] inst.cls = "pgKnex" ->
            \* await this.db.destroy(); this.status = "error"; emit
            /\ inst' = MarkStale([inst EXCEPT !.status = "error", !.errored = TRUE, !.client = "closed"])
            /\ last' = [Op("disconnect", inst, inst',
                           emit(inst, "disconnect", "error"))
                        EXCEPT !.outcome = "fulfilled"]
       [] inst.cls \in {"pgBase", "pgPool"} /\ inst.client = "closed" ->
            \* pool.end() on an ended pool rejects
            /\ inst' = inst
            /\ last' = [Op("disconnect", inst, inst, <<>>) EXCEPT !.outcome = "rejected"]
       [] inst.cls = "pgBase" /\ inst.client # "closed" ->
            /\ inst' = MarkStale([inst EXCEPT !.status = "error", !.errored = TRUE, !.client = "closed"])
            /\ last' = [Op("disconnect", inst, inst',
                           emit(inst, "disconnect", "error"))
                        EXCEPT !.outcome = "fulfilled"]
       [] inst.cls = "pgPool" /\ inst.client # "closed" ->
            \* emit("disconnect"); this.status = "error";
            \* this.connectionPromise = undefined
            /\ inst' = MarkStale([inst EXCEPT
                          !.status = "error", !.errored = TRUE, !.client = "closed",
                          !.ready = "undefined",
                          !.chains = [k \in Slots |->
                                        [inst.chains[k] EXCEPT !.current = FALSE]]])
            /\ last' = [Op("disconnect", inst, inst',
                           emit(inst, "disconnect", inst.status))
                        EXCEPT !.outcome = "fulfilled"]
       [] inst.cls \in MongoClasses /\ inst.client = "none" ->
            \* if (this.client) is false
            /\ inst' = inst
            /\ last' = [Op("disconnect", inst, inst, <<>>) EXCEPT !.outcome = "fulfilled"]
       [] inst.cls \in MongoClasses /\ inst.client # "none" ->
            /\ inst' = MarkStale([inst EXCEPT !.status = "error", !.errored = TRUE, !.client = "closed"])
            /\ last' = [Op("disconnect", inst, inst',
                           emit(inst, "disconnect", "error"))
                        EXCEPT !.outcome = "fulfilled"]
       [] inst.cls = "sqlite" /\ inst.client = "none" ->
            \* this.db is undefined: this.db.close() throws
            /\ inst' = inst
            /\ last' = [Op("disconnect", inst, inst, <<>>) EXCEPT !.outcome = "rejected"]
       [] inst.cls = "sqlite" /\ inst.client # "none" ->
            /\ inst' = MarkStale([inst EXCEPT !.status = "error", !.errored = TRUE, !.client = "closed"])
            /\ last' = [Op("disconnect", inst, inst',
                           emit(inst, "disconnect", "error"))
                        EXCEPT !.outcome = "fulfilled"]
  /\ UNCHANGED <<store, ret, callers, configVars, factoryRev, customStrategies, schemaRegistry, registered,
                 created, transportUp>>

\* a probe that never fails
ProbeAlwaysOk(i) == TRUE

\* whether the probe of healthCheck() succeeds
ProbeOk(i) ==
  CASE i.cls = "mock" -> TRUE
    [] i.cls \in PoolClasses -> transportUp /\ i.client = "open"
    [] i.cls \in MongoClasses -> transportUp /\ i.client = "open" /\ i.db
    [] OTHER -> i.client = "open"

\* healthCheck(): never throws; the catch block of pgKnex, pgBase and the
\* mongo classes sets status = "error".  `start = Date.now()` is read before
\* the probe and the latency is `Date.now() - start` after it: the ticks that
\* passed; the mock returns the literal 0.
HealthCheck ==
  /\ inst.cls # "none"
  /\ \E elapsed \in 0..MaxElapsed :
       LET latency == IF inst.cls = "mock" THEN 0 ELSE elapsed
       IN IF ProbeOk(inst)
          THEN /\ inst' = inst
               /\ last' = [Op("healthCheck", inst, inst, <<>>)
                           EXCEPT !.outcome = "ok", !.latency = latency]
          ELSE /\ inst' = IF inst.cls \in {"pgKnex", "pgBase"} \cup MongoClasses
                          THEN [inst EXCEPT !.status = "error", !.errored = TRUE]
                          ELSE inst
               /\ last' = [Op("healthCheck", inst, inst', <<>>)
                           EXCEPT !.outcome = "fail", !.latency = latency]
  /\ UNCHANGED <<store, ret, callers, configVars, factoryRev, customStrategies, schemaRegistry, registered,
                 created, transportUp>>

\* on(event, listener)
On(e) ==
  /\ inst.cls # "none"
  /\ IF inst.cls = "mock"
     THEN \* listener(): called at once and not recorded
          /\ inst' = inst
          /\ last' = [Op("on", inst, inst,
                         <<[event |-> e, listener |-> 1, seen |-> inst.status]>>)
                      EXCEPT !.outcome = e]
     ELSE /\ inst.listeners[e] < MaxListeners
          /\ inst' = [inst EXCEPT !.listeners[e] = @ + 1]
          /\ last' = [Op("on", inst, inst', <<>>) EXCEPT !.outcome = e]
  /\ UNCHANGED <<store, ret, callers, configVars, factoryRev, customStrategies, schemaRegistry, registered,
                 created, transportUp>>

\* the pool's "error" event: an idle client of the pool lost its backend
PoolError ==
  /\ inst.cls \in {"pgBase", "pgPool"}
  /\ inst.client = "open" /\ inst.db
  /\ inst' = [inst EXCEPT !.status = "error", !.errored = TRUE]
  /\ last' = Op("poolError", inst, inst',
                IF inst.cls = "pgBase" THEN emit(inst, "disconnect", "error")
                ELSE <<>>)
  /\ UNCHANGED <<store, ret, callers, configVars, factoryRev, customStrategies, schemaRegistry, registered,
                 created, transportUp>>

\* the owner lets go of the instance once nothing of it is in flight
Drop ==
  /\ inst.cls # "none"
  /\ ActiveChains(inst) = {}
  /\ created.outcome # "pending"
  /\ inst' = NoInst
  /\ last' = NoOp
  /\ created' = NoCreated
  /\ store' = IF inst.cls = "mock" THEN EmptyStore ELSE store
  /\ ret' = NoRet
  /\ UNCHANGED <<callers, configVars, factoryRev, customStrategies, schemaRegistry, registered,
                 transportUp>>

\* the backend becomes unreachable / reachable
TransportFails ==
  /\ transportUp
  /\ transportUp' = FALSE
  /\ UNCHANGED <<store, ret, callers, configVars, factoryRev, customStrategies, schemaRegistry, registered,
                 created, inst, last>>

TransportRecovers ==
  /\ ~transportUp
  /\ transportUp' = TRUE
  /\ UNCHANGED <<store, ret, callers, configVars, factoryRev, customStrategies, schemaRegistry, registered,
                 created, inst, last>>

\* ---------------------------------------------------------------- the factory
\* engine.startsWith("custom:")
IsCustom(engine) == engine \in CustomNames

\* keys of builtinStrategies in each revision
builtinStrategies(rev) ==
  CASE rev = "v1" -> {"mock", "postgres"}
    [] rev = "v2" -> {"mock", "postgres", "mongo"}
    [] OTHER -> {"mock", "postgres", "mongo", "sqlite"}

\* the class a builtin name constructs: any revision of that strategy file
ClassesOf(engine) ==
  CASE engine = "mock" -> {"mock"}
    [] engine = "postgres" -> {"pgKnex", "pgPool", "pgBase"}
    [] engine = "mongo" -> {"mongo", "mongoBase"}
    [] engine = "sqlite" -> {"sqlite"}
    [] OTHER -> {}

hasEngine(engine) ==
  IF IsCustom(engine) THEN customStrategies[engine] # NoReg
  ELSE engine \in builtinStrategies(factoryRev)

\* registerCustomEngine(engine, config): the error it throws, "none" if none
registerError(engine) ==
  IF ~IsCustom(engine) THEN "InvalidName"
  ELSE IF factoryRev # "v1" /\ hasEngine(engine) THEN "Duplicate"
  ELSE "none"

registerCustomEngine(engine, reg) ==
  /\ registered' = [engine |-> engine,
                    had |-> IsCustom(engine) /\ customStrategies[engine] # NoReg,
                    error |-> registerError(engine)]
  /\ customStrategies' = IF registerError(engine) = "none"
                         THEN [customStrategies EXCEPT ![engine] = reg]
                         ELSE customStrategies
  /\ UNCHANGED <<store, ret, callers, configVars, factoryRev, schemaRegistry, created, inst, transportUp, last>>

\* the field each builtin schema declares: its type; every one has a default
\* and none has requiredIf
FieldType(module) == IF module = "mock" THEN "boolean" ELSE "string"

\* Config.registerModuleSchema(module, schema), run when the module of a
\* strategy (or its index) is imported
registerModuleSchema(module) ==
  /\ module \notin schemaRegistry
  /\ schemaRegistry' = schemaRegistry \cup {module}
  /\ UNCHANGED <<store, ret, callers, configVars, factoryRev, customStrategies, registered, created, inst,
                 transportUp, last>>

\* Config.validate({[engine]: cfg}): the modules with a violated field.  Every
\* registered schema is checked; a module other than `engine` has no value.
\* With a default the zod type is optional(): undefined passes.
validate(engine, cfg) ==
  {m \in schemaRegistry :
     LET value == IF m = engine THEN cfg.value ELSE "undefined"
     IN value # "undefined" /\ value # FieldType(m)}

\* the instance constructed before the config is validated
BuiltinStepsEager(rev) ==
  IF rev = "v3" THEN <<"schema", "construct", "validate", "await">>
  ELSE <<"supported", "construct", "await">>

\* the registry lookup left out
CustomStepsNoLookup == <<"configValidator", "construct", "await">>

\* the steps of createBuiltinStrategy and createCustomStrategy, in code order
BuiltinSteps(rev) ==
  IF rev = "v3" THEN <<"schema", "validate", "construct", "await">>
  ELSE <<"supported", "construct", "await">>

CustomSteps == <<"lookup", "configValidator", "construct", "await">>

\* one step of create(); a thrown error ends the call, later steps do not run
Step(st, s, engine, cfg, c) ==
  IF st.error # "none" THEN st
  ELSE CASE s = "supported" ->
              IF engine \in builtinStrategies(factoryRev) THEN st
              ELSE [st EXCEPT !.error = "Unsupported"]
         [] s = "schema" ->
              IF engine \in schemaRegistry THEN st
              ELSE [st EXCEPT !.error = "MissingSchema"]
         [] s = "validate" ->
              IF validate(engine, cfg) = {} THEN st
              ELSE [st EXCEPT !.error = "InvalidConfig"]
         [] s = "lookup" ->
              IF customStrategies[engine] # NoReg THEN st
              ELSE [st EXCEPT !.error = "Unregistered"]
         [] s = "configValidator" ->
              IF customStrategies[engine].configValidator = "typed"
                 /\ cfg.value # "string"
              THEN [st EXCEPT !.error = "configValidator"] ELSE st
         [] s = "construct" ->
              [st EXCEPT !.inst = Construct(c, cfg, transportUp),
                         !.constructed = TRUE]
         [] s = "await" ->
              [st EXCEPT !.inst = readyGet(st.inst, TRUE)]

RECURSIVE Run(_, _, _, _, _)
Run(st, steps, engine, cfg, c) ==
  IF steps = <<>> THEN st
  ELSE Run(Step(st, Head(steps), engine, cfg, c), Tail(steps), engine, cfg, c)

\* DatabaseStrategyFactory.create(engine, cfg); c is the class constructed
create(engine, cfg, c) ==
  /\ inst.cls = "none"
  /\ created.outcome # "pending"
  /\ IF IsCustom(engine)
     THEN customStrategies[engine] # NoReg => c = customStrategies[engine].strategyClass
     ELSE IF ClassesOf(engine) = {} THEN c = "mock" ELSE c \in ClassesOf(engine)
  /\ LET st == Run([error |-> "none", inst |-> NoInst, constructed |-> FALSE],
                   IF IsCustom(engine) THEN CustomSteps
                   ELSE BuiltinSteps(factoryRev),
                   engine, cfg, c)
         rec == [NoCreated EXCEPT
                   !.engine = engine, !.error = st.error,
                   !.constructed = st.constructed, !.cls = st.inst.cls,
                   !.reg = IF IsCustom(engine) THEN customStrategies[engine]
                           ELSE NoReg,
                   !.schema = engine \in schemaRegistry,
                   !.valid = validate(engine, cfg) = {}]
     IN /\ inst' = st.inst
        /\ created' =
             IF st.error # "none"
             THEN [rec EXCEPT !.outcome = "rejected"]
             ELSE FinishCreate([rec EXCEPT !.outcome = "pending"],
                               st.inst.ready, st.inst.status)
        /\ last' = IF st.constructed
                   THEN [NoOp EXCEPT !.op = "create", !.to = st.inst.status]
                   ELSE last
        /\ store' = IF st.inst.cls = "mock" THEN EmptyStore ELSE store
  /\ UNCHANGED <<ret, callers, configVars, factoryRev, customStrategies, schemaRegistry, registered,
                 transportUp>>

\* ------------------------------------------- create / read / update / delete
\* classes whose read() calls validateQueryOptions
ValidatingClasses == {"mock", "pgKnex", "pgBase", "mongoBase", "sqlite"}

\* classes that build their SQL text themselves: an empty filter gives
\* `... WHERE ` with nothing after it, which the backend refuses
RawSqlClasses == {"pgPool", "pgBase", "sqlite"}

\* whether a query issued now is answered by the backend
Usable(i) ==
  CASE i.cls = "mock" -> TRUE
    [] i.cls \in PoolClasses -> transportUp /\ i.client = "open"
    [] i.cls \in MongoClasses -> transportUp /\ i.client = "open" /\ i.db
    [] OTHER -> i.client = "open"

\* whether the operation gets as far as handing a query to the driver
Issues(i) ==
  CASE i.cls = "mock" -> FALSE
    [] i.cls \in PoolClasses -> TRUE
    [] i.cls \in MongoClasses -> i.db
    [] OTHER -> i.client # "none"

Call(op, collection, filter, data, options) ==
  [NoRet EXCEPT !.op = op, !.collection = collection, !.filter = filter,
                !.data = data, !.options = options]

Rejected(call, calls) ==
  [call EXCEPT !.outcome = "rejected", !.calls = calls]

Fulfilled(call, kind, rows, count, calls) ==
  [call EXCEPT !.outcome = "fulfilled", !.kind = kind, !.rows = rows,
               !.count = count, !.calls = calls]

\* ids the backend may give a new row: the caller's if it passes one and it is
\* not taken, else any id not taken
FreeIds(rows, data) ==
  LET used == {rows[k].id : k \in 1..Len(rows)}
  IN IF data.id # Undefined THEN {data.id[1]} \ used
     ELSE (1..MaxRecords) \ used

\* ids counted from 0
nextIdFromZero(rows) == Len(rows)

\* id: this.db[collection].length + 1
nextId(rows) == Len(rows) + 1

\* create(collection, data)
Create(collection, data) ==
  /\ inst.cls # "none"
  /\ TotalRecords(store) < MaxRecords
  /\ LET rows == store[collection]
         call == Call("create", collection, Empty, data, NoOptions)
     IN CASE inst.cls = "mock" ->
               \* const item = { ...data, id: this.db[collection].length + 1 }
               LET item == [id |-> nextId(rows), name |-> data.name]
               IN /\ store' = [store EXCEPT ![collection] = Append(rows, item)]
                  /\ ret' = Fulfilled(call, "record", <<item>>, 0, 0)
          [] inst.cls # "mock" /\ (~Usable(inst) \/ FreeIds(rows, data) = {}) ->
               /\ store' = store
               /\ ret' = Rejected(call, IF Issues(inst) THEN 1 ELSE 0)
          [] OTHER ->
               \E id \in FreeIds(rows, data) :
                 LET row == [id |-> id, name |-> data.name]
                 IN /\ store' = [store EXCEPT ![collection] = Append(rows, row)]
                    /\ ret' = IF inst.cls = "sqlite"
                              THEN \* return data
                                   Fulfilled(call, "data", <<>>, 0, 1)
                              ELSE \* RETURNING * / { ...data, _id }
                                   Fulfilled(call, "record", <<row>>, 0, 1)
  /\ UNCHANGED <<callers, configVars, factoryRev, customStrategies, schemaRegistry, registered,
                 created, inst, transportUp, last>>

\* what the backend answers to the query of read(): ORDER BY / sort (ties in
\* stored order), then OFFSET / skip, then LIMIT / limit
backendRead(cls, rows, query, options) ==
  LET matched == Matching(rows, query)
      sort == IF options.sort.order = "desc" THEN options.sort
              ELSE [options.sort EXCEPT !.order = "asc"]
      ordered == IF options.sort # NoSort /\ cls \notin {"pgPool", "mongo"}
                 THEN Sorted(matched, Len(matched), sort) ELSE matched
      useOffset ==
        CASE cls = "mongo" -> FALSE
          [] cls = "pgPool" -> options.offset \notin {Undefined, <<0>>}
          [] OTHER -> options.offset # Undefined
      useLimit ==
        CASE cls = "mongo" -> FALSE
          [] cls \in {"pgPool", "mongoBase"} -> options.limit \notin {Undefined, <<0>>}
          [] OTHER -> options.limit # Undefined
      skipped == IF useOffset THEN SliceFrom(ordered, options.offset[1])
                 ELSE ordered
  IN IF useLimit THEN SliceTo(skipped, options.limit[1]) ELSE skipped

\* read(collection, query, options)
Read(collection, query, options) ==
  /\ inst.cls # "none"
  /\ LET rows == store[collection]
         call == Call("read", collection, query, Empty, options)
         issued == IF Issues(inst) THEN 1 ELSE 0
     IN ret' =
          CASE inst.cls \in ValidatingClasses
                 /\ validateQueryOptions(options) # "none" ->
                 Rejected(call, 0)
            [] inst.cls = "mock" ->
                 Fulfilled(call, "records", mockRead(rows, query, options), 0, 0)
            [] inst.cls \in {"pgBase", "sqlite"} /\ options.sort # NoSort
                 /\ options.sort.order = "absent" ->
                 \* options.sort.order.toUpperCase() of undefined
                 Rejected(call, 0)
            [] ~Usable(inst) -> Rejected(call, issued)
            [] inst.cls = "pgPool"
                 /\ \/ (options.limit # Undefined /\ options.limit[1] < 0)
                    \/ (options.offset # Undefined /\ options.offset[1] < 0) ->
                 \* LIMIT / OFFSET must not be negative: the backend refuses
                 Rejected(call, 1)
            [] OTHER ->
                 Fulfilled(call, "records",
                           backendRead(inst.cls, rows, query, options), 0, 1)
  /\ UNCHANGED <<callers, configVars, factoryRev, customStrategies, schemaRegistry, registered,
                 created, inst, transportUp, last, store>>

\* the value update() / delete() return for the affected records
MutationResult(call, cls, affected, modified) ==
  CASE cls = "mock" -> Fulfilled(call, "records", affected, 0, 0)
    [] cls \in PoolClasses ->
         \* return result[0] / result.rows[0]
         IF affected = <<>> THEN Fulfilled(call, "undefined", <<>>, 0, 1)
         ELSE Fulfilled(call, "record", <<affected[1]>>, 0, 1)
    [] cls \in MongoClasses ->
         \* return result.modifiedCount / result.deletedCount
         Fulfilled(call, "count", <<>>, modified, 1)
    [] OTHER ->
         \* sqlite: return data / return query
         Fulfilled(call, IF call.op = "update" THEN "data" ELSE "filter",
                   <<>>, 0, 1)

\* update(collection, query, data)
Update(collection, query, data) ==
  /\ inst.cls # "none"
  /\ LET rows == store[collection]
         call == Call("update", collection, query, data, NoOptions)
         patched == [k \in 1..Len(rows) |->
                       IF Matches(rows[k], query) THEN Assign(rows[k], data)
                       ELSE rows[k]]
         affected == Matching(rows, query)
         modified == Cardinality({k \in 1..Len(rows) : patched[k] # rows[k]})
     IN IF inst.cls # "mock"
           /\ (~Usable(inst) \/ (inst.cls \in RawSqlClasses /\ query = Empty))
        THEN /\ store' = store
             /\ ret' = Rejected(call, IF Issues(inst) THEN 1 ELSE 0)
        ELSE /\ store' = [store EXCEPT ![collection] = patched]
             /\ ret' = MutationResult(call, inst.cls,
                         [k \in 1..Len(affected) |-> Assign(affected[k], data)],
                         modified)
  /\ UNCHANGED <<callers, configVars, factoryRev, customStrategies, schemaRegistry, registered,
                 created, inst, transportUp, last>>

\* delete(collection, query)
Delete(collection, query) ==
  /\ inst.cls # "none"
  /\ LET rows == store[collection]
         call == Call("delete", collection, query, Empty, NoOptions)
         Kept(item) == ~Matches(item, query)
         affected == Matching(rows, query)
     IN IF inst.cls # "mock"
           /\ (~Usable(inst) \/ (inst.cls \in RawSqlClasses /\ query = Empty))
        THEN /\ store' = store
             /\ ret' = Rejected(call, IF Issues(inst) THEN 1 ELSE 0)
        ELSE /\ store' = [store EXCEPT ![collection] = SelectSeq(rows, Kept)]
             /\ ret' = MutationResult(call, inst.cls, affected, Len(affected))
  /\ UNCHANGED <<callers, configVars, factoryRev, customStrategies, schemaRegistry, registered,
                 created, inst, transportUp, last>>

\* ----------------------------------------------------------- configuration
\* ConfigFieldType
FieldTypes == {"string", "number", "boolean", "secret", "custom"}

\* modules that register a schema, in the order Config.schemaRegistry (a Map)
\* iterates them
ModuleOrder == <<"postgres", "mock">>

ConfigModules == {"postgres", "mock"}

\* the keys a module's schema may declare, in the order Object.entries
\* iterates them
KeyOrder(m) == IF m = "postgres" THEN <<"host", "port">> ELSE <<"enableLogging">>

SchemaKeys(m) == {KeyOrder(m)[i] : i \in 1..Len(KeyOrder(m))}

\* a key the schema does not declare
NoField == [type |-> "none", default |-> "absent", envVar |-> "absent",
            requiredIf |-> "absent"]

\* ConfigFieldDefinition: type; whether default is given (a value of the
\* declared type, as in every schema of the repository); whether envVar names
\* a variable; requiredIf absent, or what it returns for the config validated
FieldDefs(types, envVars, conditions) ==
  [type : types, default : {"absent", "present"}, envVar : envVars,
   requiredIf : conditions]

\* the schemas registered by the strategy modules
\* (PostgresConfigSchema.connectionString, MockConfigSchema.enableLogging)
ShippedSchemas ==
  [m \in ConfigModules |->
     [k \in SchemaKeys(m) |->
        CASE k = "host" -> [type |-> "string", default |-> "present",
                            envVar |-> "set", requiredIf |-> "absent"]
          [] k = "enableLogging" -> [type |-> "boolean", default |-> "present",
                                     envVar |-> "absent", requiredIf |-> "absent"]
          [] OTHER -> NoField]]

\* Config.getModuleSchema(module) !== undefined
HasSchema(reg, m) == \E k \in SchemaKeys(m) : reg[m][k] # NoField

\* raw strings of environment variables
RawValues == {"true", "5432"}

NoEnv == [m \in ConfigModules |-> [k \in SchemaKeys(m) |-> Undefined]]

\* values: their runtime type (typeof; "undefined" for undefined) and text
UndefinedValue == [type |-> "undefined", text |-> "undefined"]

NoReport == [op |-> "none", module |-> "none", cfg |-> <<>>, success |-> FALSE,
             errors |-> <<>>, thrown |-> FALSE, config |-> <<>>]

\* Number(rawValue)
NumberOf(raw) == IF raw = "5432" THEN "5432" ELSE "NaN"

\* booleans coerced by truthiness of the string
CoerceTruthy(type, raw) ==
  CASE type = "number" -> [type |-> "number", text |-> NumberOf(raw)]
    [] type = "boolean" -> [type |-> "boolean", text |-> "true"]
    [] OTHER -> [type |-> "string", text |-> raw]

\* the switch on field.type of loadResolvedConfigForModule
Coerce(type, raw) ==
  CASE type = "number" -> [type |-> "number", text |-> NumberOf(raw)]
    [] type = "boolean" -> [type |-> "boolean",
                            text |-> IF raw = "true" THEN "true" ELSE "false"]
    [] OTHER -> [type |-> "string", text |-> raw]

\* the runtime type of a value of a declared type
RuntimeType(type) == IF type \in {"number", "boolean"} THEN type ELSE "string"

\* one iteration of the loop of loadResolvedConfigForModule
ResolveField(def, raw) ==
  LET rawValue == IF def.envVar = "set" THEN raw ELSE Undefined
  IN IF rawValue # Undefined THEN Coerce(def.type, rawValue[1])
     ELSE IF def.default = "present"
          THEN [type |-> RuntimeType(def.type), text |-> "default"]
          ELSE UndefinedValue

\* loadResolvedConfigForModule(engine) / getDatabaseConfigFromEnv(engine)
loadResolvedConfigForModule(engine) ==
  /\ report' =
       IF ~HasSchema(schemas, engine)
       THEN [NoReport EXCEPT !.op = "resolve", !.module = engine, !.thrown = TRUE]
       ELSE [NoReport EXCEPT
               !.op = "resolve", !.module = engine,
               !.config = [k \in {x \in SchemaKeys(engine) :
                                    schemas[engine][x] # NoField} |->
                             ResolveField(schemas[engine][k], env[engine][k])]]
  /\ UNCHANGED <<callers, schemas, env, store, ret, factoryRev, customStrategies,
                 schemaRegistry, registered, created, inst, transportUp, last>>

\* schema.safeParse(value).success for the zod schema built from def
ZodAccepts(def, value) ==
  CASE value = "undefined" -> def.default = "present" \/ def.type = "custom"
    [] def.type = "custom" -> TRUE
    [] def.type \in {"string", "secret"} -> value = "string"
    [] OTHER -> value = def.type

\* both checks made on a field, the second not skipped after the first
FieldErrorsBoth(def, value, module, key) ==
  IF def = NoField THEN <<>>
  ELSE (IF def.requiredIf = "true" /\ value = "undefined"
        THEN <<[module |-> module, key |-> key, kind |-> "required"]>>
        ELSE <<>>)
       \o (IF ~ZodAccepts(def, value)
           THEN <<[module |-> module, key |-> key, kind |-> "type"]>>
           ELSE <<>>)

\* the body of the inner loop of Config.validate: the messages pushed for
\* one field
FieldErrors(def, value, module, key) ==
  IF def = NoField THEN <<>>
  ELSE IF def.requiredIf = "true" /\ value = "undefined"
       THEN <<[module |-> module, key |-> key, kind |-> "required"]>>
       ELSE IF ~ZodAccepts(def, value)
            THEN <<[module |-> module, key |-> key, kind |-> "type"]>>
            ELSE <<>>

\* rawConfig?.[module]?.[key] for rawConfig = {[engine]: cfg}
RawValue(engine, cfg, module, key) ==
  IF module = engine THEN cfg[key] ELSE "undefined"

\* the inner loop of Config.validate over the keys of one schema
RECURSIVE SchemaErrors(_, _, _, _, _)
SchemaErrors(reg, engine, cfg, module, keys) ==
  IF keys = <<>> THEN <<>>
  ELSE FieldErrors(reg[module][Head(keys)],
                   RawValue(engine, cfg, module, Head(keys)), module, Head(keys))
       \o SchemaErrors(reg, engine, cfg, module, Tail(keys))

\* the outer loop of Config.validate over all registered schemas
RECURSIVE AllErrors(_, _, _, _)
AllErrors(reg, engine, cfg, modules) ==
  IF modules = <<>> THEN <<>>
  ELSE SchemaErrors(reg, engine, cfg, Head(modules), KeyOrder(Head(modules)))
       \o AllErrors(reg, engine, cfg, Tail(modules))

\* Config.validate({[engine]: cfg})
ConfigValidate(engine, cfg) ==
  /\ LET errors == AllErrors(schemas, engine, cfg, ModuleOrder)
     IN report' = [NoReport EXCEPT !.op = "validate", !.module = engine,
                                   !.cfg = cfg, !.success = (errors = <<>>),
                                   !.errors = errors]
  /\ UNCHANGED <<callers, schemas, env, store, ret, factoryRev, customStrategies,
                 schemaRegistry, registered, created, inst, transportUp, last>>

\* ------------------------------------------------------------ specification
\* The lifecycle of one instance, built directly by its owner.
Init ==
  /\ factoryRev = "v3"
  /\ customStrategies = [n \in CustomNames |-> NoReg]
  /\ schemaRegistry = {"mock", "postgres", "sqlite"}
  /\ registered = NoRegistered
  /\ created = NoCreated
  /\ inst = NoInst
  /\ transportUp \in BOOLEAN
  /\ last = NoOp
  /\ store = EmptyStore
  /\ ret = NoRet
  /\ schemas = ShippedSchemas
  /\ env = NoEnv
  /\ report = NoReport
  /\ callers = MaxChains

Next ==
  \/ \E c \in Classes, cfg \in Configs : New(c, cfg)
  \/ ReadReady
  \/ Connect
  \/ \E k \in 1..MaxChains : AttemptSucceeds(k)
  \/ \E k \in 1..MaxChains : AttemptFails(k)
  \/ \E k \in 1..MaxChains : Wake(k)
  \/ Disconnect
  \/ HealthCheck
  \/ \E e \in Events : On(e)
  \/ PoolError
  \/ Drop
  \/ TransportFails
  \/ TransportRecovers

Spec == Init /\ [][Next]_vars

\* The connection lifecycle alone: no listener is registered and `ready` is
\* not read.  Listeners are opaque callbacks that never act on the instance,
\* and a read of `ready` changes neither status nor retryCount other than by
\* the connect it may start, which Connect starts as well.
ConnectNext ==
  \/ \E c \in Classes, cfg \in Configs : New(c, cfg)
  \/ Connect
  \/ \E k \in 1..MaxChains : AttemptSucceeds(k)
  \/ \E k \in 1..MaxChains : AttemptFails(k)
  \/ \E k \in 1..MaxChains : Wake(k)
  \/ Disconnect
  \/ HealthCheck
  \/ PoolError
  \/ Drop
  \/ TransportFails
  \/ TransportRecovers

ConnectSpec == Init /\ [][ConnectNext]_vars

\* The factory: registration, schema registration and create(), with the
\* connect chain that create() awaits running to its end.
FactoryInit ==
  /\ factoryRev \in FactoryRevs
  /\ customStrategies = [n \in CustomNames |-> NoReg]
  /\ schemaRegistry = {"mock", "postgres", "sqlite"}
  /\ registered = NoRegistered
  /\ created = NoCreated
  /\ inst = NoInst
  /\ transportUp \in BOOLEAN
  /\ last = NoOp
  /\ store = EmptyStore
  /\ ret = NoRet
  /\ schemas = ShippedSchemas
  /\ env = NoEnv
  /\ report = NoReport
  /\ callers = MaxChains

FactoryNext ==
  \/ \E n \in EngineNames, r \in Registrations : registerCustomEngine(n, r)
  \/ \E m \in BuiltinNames : registerModuleSchema(m)
  \/ \E n \in EngineNames, cfg \in Configs, c \in Classes : create(n, cfg, c)
  \/ \E k \in 1..MaxChains : AttemptSucceeds(k)
  \/ \E k \in 1..MaxChains : AttemptFails(k)
  \/ \E k \in 1..MaxChains : Wake(k)
  \/ Drop
  \/ TransportFails
  \/ TransportRecovers

FactorySpec == FactoryInit /\ [][FactoryNext]_vars

\* The mock backend: one MockDatabaseStrategy and its in-memory collections,
\* read without options.
MockNext ==
  \/ \E cfg \in Configs : New("mock", cfg)
  \/ \E c \in Collections, d \in Datas : Create(c, d)
  \/ \E c \in Collections, q \in Filters : Read(c, q, NoOptions)
  \/ \E c \in Collections, q \in Filters, d \in Patches : Update(c, q, d)
  \/ \E c \in Collections, q \in Filters : Delete(c, q)
  \/ Drop

MockInit == Init /\ transportUp

MockSpec == MockInit /\ [][MockNext]_vars

\* Paging on the mock backend: one collection, filled and thinned out, read
\* with limit and offset.
PageCollections == {"users"}

PageNext ==
  \/ \E cfg \in Configs : New("mock", cfg)
  \/ \E c \in PageCollections, d \in Datas : Create(c, d)
  \/ \E c \in PageCollections, q \in Filters, o \in PageOptions : Read(c, q, o)
  \/ \E c \in PageCollections, q \in Filters : Delete(c, q)
  \/ Drop

PageSpec == MockInit /\ [][PageNext]_vars

\* Every strategy against its backend: the instance is built and connected,
\* then used for create / read / update / delete.
StoreOptions == {NoOptions} \cup BadOptions

\* one table is enough to tell the strategies apart
StoreCollections == {"users"}

\* a config without maxRetries
PlainConfig == [value |-> "undefined", maxRetries |-> Undefined]

StoreNext ==
  \/ \E c \in Classes : New(c, PlainConfig)
  \/ Connect
  \/ \E k \in 1..MaxChains : AttemptSucceeds(k)
  \/ \E c \in StoreCollections, d \in Datas : Create(c, d)
  \/ \E c \in StoreCollections, q \in Filters, o \in StoreOptions : Read(c, q, o)
  \/ \E c \in StoreCollections, q \in Filters, d \in Patches : Update(c, q, d)
  \/ \E c \in StoreCollections, q \in Filters : Delete(c, q)

StoreInit == Init /\ transportUp

StoreSpec == StoreInit /\ [][StoreNext]_vars

\* Config.validate as a function of the registry and the config: any
\* schemas may be registered, then configs are validated.
ValidateDefs(types) == FieldDefs(types, {"absent"}, {"absent", "false", "true"})

ValidatedValues == {"undefined", "string", "number", "boolean"}

ValidateInit ==
  /\ factoryRev = "v3"
  /\ customStrategies = [n \in CustomNames |-> NoReg]
  /\ schemas \in [ConfigModules ->
                    [{"host", "port"} -> ValidateDefs(FieldTypes) \cup {NoField}]
                    \cup [{"enableLogging"} ->
                            ValidateDefs({"boolean"}) \cup {NoField}]]
  /\ \A m \in ConfigModules : DOMAIN schemas[m] = SchemaKeys(m)
  /\ schemaRegistry = {m \in ConfigModules : HasSchema(schemas, m)}
  /\ registered = NoRegistered
  /\ created = NoCreated
  /\ inst = NoInst
  /\ transportUp = TRUE
  /\ last = NoOp
  /\ store = EmptyStore
  /\ ret = NoRet
  /\ env = NoEnv
  /\ report = NoReport
  /\ callers = MaxChains

ValidateNext ==
  \E m \in ConfigModules :
     \E cfg \in [SchemaKeys(m) -> ValidatedValues] : ConfigValidate(m, cfg)

ValidateSpec == ValidateInit /\ [][ValidateNext]_vars

\* The resolver as a function of the registry and the environment.
ResolveDefs(types) == FieldDefs(types, {"absent", "set"}, {"absent"})

ResolveInit ==
  /\ factoryRev = "v3"
  /\ customStrategies = [n \in CustomNames |-> NoReg]
  /\ schemas \in [ConfigModules ->
                    [{"host", "port"} -> ResolveDefs(FieldTypes) \cup {NoField}]
                    \cup [{"enableLogging"} ->
                            ResolveDefs({"boolean"}) \cup {NoField}]]
  /\ \A m \in ConfigModules : DOMAIN schemas[m] = SchemaKeys(m)
  /\ schemaRegistry = {m \in ConfigModules : HasSchema(schemas, m)}
  /\ registered = NoRegistered
  /\ created = NoCreated
  /\ inst = NoInst
  /\ transportUp = TRUE
  /\ last = NoOp
  /\ store = EmptyStore
  /\ ret = NoRet
  /\ env \in [ConfigModules ->
                [{"host", "port"} -> {Undefined} \cup {<<r>> : r \in RawValues}]
                \cup [{"enableLogging"} ->
                        {Undefined} \cup {<<r>> : r \in RawValues}]]
  /\ \A m \in ConfigModules : DOMAIN env[m] = SchemaKeys(m)
  /\ report = NoReport
  /\ callers = MaxChains

ResolveNext == \E m \in ConfigModules : loadResolvedConfigForModule(m)

ResolveSpec == ResolveInit /\ [][ResolveNext]_vars

\* Overlapping calls: one caller more than in the specifications above uses
\* the instance, against a backend that refuses every attempt.
OverlapClasses == RetryClasses \cup GetterClasses

OverlapInit ==
  /\ factoryRev = "v3"
  /\ customStrategies = [n \in CustomNames |-> NoReg]
  /\ schemaRegistry = {"mock", "postgres", "sqlite"}
  /\ registered = NoRegistered
  /\ created = NoCreated
  /\ inst = NoInst
  /\ transportUp = FALSE
  /\ last = NoOp
  /\ store = EmptyStore
  /\ ret = NoRet
  /\ schemas = ShippedSchemas
  /\ env = NoEnv
  /\ report = NoReport
  /\ callers = MaxChains + 1

OverlapNext ==
  \/ \E c \in OverlapClasses, cfg \in Configs : New(c, cfg)
  \/ ReadReady
  \/ Connect
  \/ \E k \in Slots : AttemptFails(k)
  \/ \E k \in Slots : Wake(k)
  \/ Drop

OverlapSpec == OverlapInit /\ [][OverlapNext]_vars

\* The connect chains of one caller under fair scheduling: an attempt that
\* was issued completes (the driver's connect timeout) and a backoff timer
\* that was set fires.
LiveNext ==
  \/ \E c \in Classes, cfg \in Configs : New(c, cfg)
  \/ Connect
  \/ \E k \in 1..MaxChains : AttemptSucceeds(k)
  \/ \E k \in 1..MaxChains : AttemptFails(k)
  \/ \E k \in 1..MaxChains : Wake(k)
  \/ Disconnect
  \/ Drop
  \/ TransportFails
  \/ TransportRecovers

LiveSpec ==
  /\ Init
  /\ [][LiveNext]_vars
  /\ WF_vars(\E k \in 1..MaxChains : AttemptSucceeds(k) \/ AttemptFails(k))
  /\ WF_vars(\E k \in 1..MaxChains : Wake(k))

\* Sorted reads: every strategy, one table, read with a sort.
SortNext ==
  \/ \E c \in Classes : New(c, PlainConfig)
  \/ Connect
  \/ \E k \in 1..MaxChains : AttemptSucceeds(k)
  \/ \E c \in StoreCollections, d \in Datas : Create(c, d)
  \/ \E c \in StoreCollections, q \in Filters, o \in SortOptions : Read(c, q, o)

SortSpec == StoreInit /\ [][SortNext]_vars

\* ------------------------------------------------------------------- claims
\* C1: whenever create(engine, config) resolves, the instance it returns has
\* status = ready; it never returns an instance that is connecting or in error.
C1_CreateReturnsReady ==
  created.outcome = "resolved" => created.status = "ready"

\* C2: create for a builtin relational or document engine resolves only after
\* the instance ran its connect-with-retry sequence and an attempt succeeded;
\* when every attempt fails it rejects and never resolves with an instance.
C2_CreateRejectsWhenUnreachable ==
  (created.outcome = "resolved" /\ created.engine \in {"postgres", "mongo"})
    => (inst.started /\ inst.db)

\* C3: with maxRetries = 3, one connect on a fresh instance against a transport
\* that fails every attempt makes exactly 4 attempts and then raises with
\* status = error; the delays before retries 1, 2, 3 are 200, 400, 800 ms.
C3_FourAttemptsGeometricDelays ==
  (inst.cls \in RetryClasses /\ RetryCap(inst) = 3
     /\ last.op = "attempt" /\ last.solo)
    => /\ last.outcome = "rejected" => (last.attempts = 4 /\ inst.status = "error")
       /\ last.outcome = "retry" =>
            /\ last.attempts \in 1..3
            /\ last.delay = IF last.attempts = 1 THEN 200
                            ELSE IF last.attempts = 2 THEN 400 ELSE 800

C3_Witness ==
  /\ inst.cls \in RetryClasses /\ RetryCap(inst) = 3
  /\ last.op = "attempt" /\ last.solo /\ last.outcome = "rejected"
  /\ last.attempts = 4 /\ inst.status = "error" /\ inst.retryCount = 3

\* C4: the retry cap is the configured maxRetries: a connect on a fresh
\* relational or document instance against a failing transport makes exactly
\* maxRetries + 1 attempts before it raises (3 + 1 when none is configured).
C4_CapIsConfiguredMaxRetries ==
  (inst.cls \in RetryClasses /\ last.op = "attempt" /\ last.solo
     /\ last.outcome = "rejected")
    => last.attempts = OrDefault(inst.maxRetries) + 1

\* C5: create of a custom name fails with the unregistered-engine error and
\* constructs nothing as long as the name was never registered; the registry
\* gets the name only from a successful registerCustomEngine and keeps it;
\* once registered, create constructs through the registered class and, if the
\* configValidator accepts, resolves exactly when the instance becomes ready.
C5_CustomCreateNeedsRegistration ==
  [][\A n \in CustomNames :
       /\ (created' # created /\ created'.engine = n /\ created.outcome # "pending")
            => IF customStrategies[n] = NoReg
               THEN /\ created'.outcome = "rejected"
                    /\ created'.error = "Unregistered"
                    /\ inst' = NoInst
               ELSE \/ /\ created'.error = "configValidator"
                       /\ customStrategies[n].configValidator # "absent"
                    \/ /\ inst'.cls = customStrategies[n].strategyClass
                       /\ created'.cls = customStrategies[n].strategyClass
                       /\ created'.outcome = "resolved" <=> inst'.ready = "fulfilled"
                       /\ created'.outcome = "rejected" <=> inst'.ready = "rejected"
       /\ (customStrategies[n] = NoReg /\ customStrategies'[n] # NoReg)
            => (registered'.engine = n /\ registered'.error = "none")
       /\ customStrategies[n] # NoReg => customStrategies'[n] # NoReg
    ]_vars

C5_Witness ==
  /\ created.engine \in CustomNames
  /\ created.reg # NoReg /\ created.reg.configValidator = "typed"
  /\ created.reg.strategyClass = "mongo"
  /\ created.outcome = "resolved" /\ created.cls = "mongo"

\* C6: the custom registry is write-once per name: a registerCustomEngine of a
\* name the registry already holds fails with the duplicate-registration error.
C6_RegistryWriteOnce ==
  registered.had => registered.error = "Duplicate"

\* C7: an unregistered-engine, missing-schema, config-validation or
\* configValidator error of create is raised before any instance is
\* constructed and before any attempt; builtin order: schema lookup, validation,
\* construction; custom order: registry lookup, configValidator, construction.
SyncErrors == {"Unregistered", "MissingSchema", "InvalidConfig", "configValidator"}

C7_SyncErrorsBeforeConstruction ==
  /\ created.error \in SyncErrors
       => /\ created.outcome = "rejected"
          /\ ~created.constructed
          /\ inst = NoInst
  /\ created.error = "InvalidConfig" => created.schema
  /\ created.error = "configValidator" => created.reg # NoReg
  /\ (created.engine \in CustomNames /\ created.reg = NoReg)
       => created.error = "Unregistered"
  /\ (factoryRev = "v3" /\ created.engine \in BuiltinNames /\ created.constructed)
       => (created.schema /\ created.valid)

C7_Witness ==
  /\ factoryRev = "v3" /\ created.engine = "postgres"
  /\ created.error = "InvalidConfig" /\ created.schema /\ ~created.valid
  /\ created.outcome = "rejected" /\ ~created.constructed /\ inst = NoInst

\* C8: ready is resolved exactly once per instance: all reads of instance.ready
\* yield a future that settles with the same outcome.
C8_ReadySettlesOnce ==
  Cardinality(inst.readSettled) <= 1

\* C9: every transition of status from a non-error value into error invokes
\* every registered disconnect listener exactly once, and every transition
\* into ready invokes every registered connect listener exactly once.
EachListenerOnce(e) ==
  /\ Len(last.invoked) = inst.listeners[e]
  /\ \A k \in 1..Len(last.invoked) :
       last.invoked[k].event = e /\ last.invoked[k].listener = k

C9_TransitionsEmit ==
  /\ (last.from \in {"connecting", "ready"} /\ last.to = "error")
       => EachListenerOnce("disconnect")
  /\ (last.from \in {"connecting", "error"} /\ last.to = "ready")
       => EachListenerOnce("connect")

\* C10: on(event, listener) only records the listener and never invokes it at
\* registration time, for every strategy, the mock included.
C10_NoReplayOnRegistration ==
  last.op = "on" => last.invoked = <<>>

\* C11: error is terminal: once the status of an instance has been error, no
\* operation on that same instance makes its status ready again.
C11_ErrorIsTerminal ==
  inst.errored => inst.status # "ready"

\* C12: for every strategy, after disconnect() resolves on an instance whose
\* status was ready, the status of the instance is error.
C12_DisconnectLeavesError ==
  (last.op = "disconnect" /\ last.from = "ready" /\ last.outcome = "fulfilled")
    => (last.to = "error" /\ inst.status = "error")

\* C13: disconnect() is idempotent: a disconnect() on an instance whose client
\* an earlier disconnect() already closed completes without raising, leaves
\* status = error, changes nothing and invokes no disconnect listener.
C13_DisconnectIdempotent ==
  [][(inst.cls # "none" /\ inst.client = "closed"
        /\ last'.op = "disconnect" /\ last' # last)
       => /\ last'.outcome = "fulfilled"
          /\ last'.invoked = <<>>
          /\ inst'.status = "error"
          /\ inst' = inst]_vars

\* C14: healthCheck() never raises in any lifecycle state: it returns ok or
\* not ok with a latency >= 0, and not ok whenever the probe fails, as on a
\* relational strategy (connected or not) whose backend is unreachable or
\* whose client is closed, and on a document strategy without a session.
C14_HealthCheckNeverRaises ==
  [][(last'.op = "healthCheck" /\ last' # last)
       => /\ last'.outcome \in {"ok", "fail"}
          /\ last'.latency >= 0
          /\ inst'.status \in {inst.status, "error"}
          /\ (inst.cls \in PoolClasses /\ (~transportUp \/ inst.client # "open"))
               => last'.outcome = "fail"
          /\ (inst.cls \in MongoClasses /\ ~inst.db) => last'.outcome = "fail"
          /\ last'.outcome = "ok" => inst' = inst]_vars

C14_Witness ==
  /\ last.op = "healthCheck" /\ last.outcome = "fail" /\ last.latency = MaxElapsed
  /\ inst.cls = "pgKnex" /\ ~inst.started /\ ~transportUp
  /\ last.from = "connecting"

\* the k-th smallest element of a set of positions
Nth(S, k) == CHOOSE i \in S : Cardinality({j \in S : j <= i}) = k

\* the positions of the records of `rows` that match `query`
Hits(rows, query) == {k \in 1..Len(rows) : Matches(rows[k], query)}

\* C15: mock identifiers are sequential per collection: a create on a
\* collection holding n - 1 records (the n-th create when nothing was deleted:
\* only delete ever shortens a collection) returns and appends a record with
\* id = n, starting at 1, and touches no other collection; read(collection, {})
\* returns exactly the records of the collection.
C15_MockSequentialIds ==
  [][\A c \in Collections :
       /\ (ret' # ret /\ ret'.op = "create" /\ ret'.collection = c)
            => /\ ret'.outcome = "fulfilled" /\ ret'.kind = "record"
               /\ ret'.rows = <<[id |-> Len(store[c]) + 1, name |-> ret'.data.name]>>
               /\ store'[c] = Append(store[c], ret'.rows[1])
               /\ \A o \in Collections \ {c} : store'[o] = store[o]
       /\ (ret' # ret /\ ret'.op \in {"read", "update"})
            => Len(store'[c]) = Len(store[c])
       /\ (inst'.cls = "mock" /\ inst.cls # "mock") => store'[c] = <<>>
       /\ (ret' # ret /\ ret'.op = "read" /\ ret'.collection = c
             /\ ret'.filter = Empty /\ ret'.options = NoOptions)
            => (ret'.outcome = "fulfilled" /\ ret'.rows = store[c])
    ]_vars

C15_Witness ==
  /\ inst.cls = "mock"
  /\ ret.op = "create" /\ ret.collection = "users"
  /\ ret.rows = <<[id |-> 2, name |-> "b"]>>
  /\ Len(store["users"]) = 2 /\ store["users"][1].id = 1
  /\ Len(store["posts"]) = 1

\* C16: mock read(collection, filter, {limit: l, offset: o}) without sort
\* returns the records that match the filter, in insertion order, without the
\* first o of them and at most l of the rest.
C16_MockReadPages ==
  [][(ret' # ret /\ ret'.op = "read" /\ inst.cls = "mock"
        /\ ret'.options \in PageOptions)
       => LET rows == store[ret'.collection]
              hits == Hits(rows, ret'.filter)
              o == IF ret'.options.offset = Undefined THEN 0
                   ELSE ret'.options.offset[1]
              rest == IF Cardinality(hits) > o THEN Cardinality(hits) - o ELSE 0
              n == IF ret'.options.limit = Undefined
                      \/ ret'.options.limit[1] > rest
                   THEN rest ELSE ret'.options.limit[1]
          IN /\ ret'.outcome = "fulfilled" /\ ret'.kind = "records"
             /\ ret'.rows = [k \in 1..n |-> rows[Nth(hits, o + k)]]
             /\ store' = store
    ]_vars

C16_Witness ==
  /\ inst.cls = "mock" /\ ret.op = "read" /\ ret.outcome = "fulfilled"
  /\ ret.filter = Empty
  /\ ret.options.limit = <<1>> /\ ret.options.offset = <<1>>
  /\ Len(store[ret.collection]) = 3
  /\ ret.rows = <<store[ret.collection][2]>>

\* C17: for every strategy, read with limit < 0, limit > 1000, offset < 0, a
\* sort without field or with an order other than asc / desc fails before
\* any backend call is issued.
C17_InvalidOptionsRejected ==
  (ret.op = "read" /\ ret.options \in BadOptions)
    => (ret.outcome = "rejected" /\ ret.calls = 0)

\* C18: update on the mock applies the patch to every matching record and to
\* no other: matching records get the patch's fields and keep their others,
\* all other records of every collection, the number and the order of records
\* are unchanged, and the matched records after patching are returned in order.
C18_MockUpdateFrame ==
  [][(ret' # ret /\ ret'.op = "update" /\ inst.cls = "mock")
       => LET c == ret'.collection
              hits == Hits(store[c], ret'.filter)
          IN /\ ret'.outcome = "fulfilled" /\ ret'.kind = "records"
             /\ Len(store'[c]) = Len(store[c])
             /\ \A k \in 1..Len(store[c]) :
                  IF k \in hits
                  THEN /\ store'[c][k].name = ret'.data.name
                       /\ store'[c][k].id = store[c][k].id
                  ELSE store'[c][k] = store[c][k]
             /\ \A o \in Collections \ {c} : store'[o] = store[o]
             /\ ret'.rows = [k \in 1..Cardinality(hits) |-> store'[c][Nth(hits, k)]]
    ]_vars

C18_Witness ==
  /\ inst.cls = "mock" /\ ret.op = "update" /\ ret.collection = "users"
  /\ ret.filter = [Empty EXCEPT !.name = "a"] /\ ret.data.name = "b"
  /\ ret.rows = <<[id |-> 2, name |-> "b"]>>
  /\ store["users"] = <<[id |-> 1, name |-> "b"], [id |-> 2, name |-> "b"]>>
  /\ store["posts"] = <<[id |-> 1, name |-> "a"]>>

\* C19: a delete that completes removes exactly the records matching the
\* filter and returns them: no record of the collection matches afterwards
\* and the others remain, unchanged and in their order.
C19_DeleteRemovesAndReturns ==
  [][(ret' # ret /\ ret'.op = "delete" /\ ret'.outcome = "fulfilled")
       => LET c == ret'.collection
              hits == Hits(store[c], ret'.filter)
              kept == (1..Len(store[c])) \ hits
          IN /\ Hits(store'[c], ret'.filter) = {}
             /\ store'[c] = [k \in 1..Cardinality(kept) |-> store[c][Nth(kept, k)]]
             /\ ret'.kind = "records"
             /\ ret'.rows = [k \in 1..Cardinality(hits) |-> store[c][Nth(hits, k)]]
    ]_vars

\* C20: every backend returns from update and delete the ordered sequence of
\* all affected records.
C20_UniformMutationReturn ==
  [][(ret' # ret /\ ret'.op \in {"update", "delete"} /\ ret'.outcome = "fulfilled")
       => LET c == ret'.collection
              hits == Hits(store[c], ret'.filter)
          IN /\ ret'.kind = "records"
             /\ Len(ret'.rows) = Cardinality(hits)
             /\ \A k \in 1..Cardinality(hits) :
                  ret'.rows[k] = IF ret'.op = "delete" THEN store[c][Nth(hits, k)]
                                 ELSE store'[c][Nth(hits, k)]
    ]_vars

\* the fields a registry declares
Declared(reg) ==
  {f \in ConfigModules \X {"host", "port", "enableLogging"} :
     f[2] \in SchemaKeys(f[1]) /\ reg[f[1]][f[2]] # NoField}

\* a field is violated by a value: undefined although required (requiredIf
\* holds, or there is no default and the type is not custom, which accepts
\* any value), or defined with a runtime type other than the declared one
Violated(def, value) ==
  IF value = "undefined"
  THEN def.requiredIf = "true" \/ (def.default = "absent" /\ def.type # "custom")
  ELSE def.type # "custom" /\ value # RuntimeType(def.type)

\* the messages of a report that name module m and key k
MessagesFor(m, k) ==
  {i \in 1..Len(report.errors) :
     report.errors[i].module = m /\ report.errors[i].key = k}

\* C21: Config.validate never short-circuits: the errors hold exactly one
\* message, naming module and key, for each violated field of every
\* registered schema and none for any other field, and success is true
\* exactly when there is no message.
C21_ValidateCollectsAll ==
  report.op = "validate" =>
    /\ \A f \in Declared(schemas) :
         Cardinality(MessagesFor(f[1], f[2])) =
           IF Violated(schemas[f[1]][f[2]],
                       RawValue(report.module, report.cfg, f[1], f[2]))
           THEN 1 ELSE 0
    /\ \A i \in 1..Len(report.errors) :
         <<report.errors[i].module, report.errors[i].key>> \in Declared(schemas)
    /\ report.success <=> (report.errors = <<>>)

C21_Witness ==
  /\ report.op = "validate" /\ report.module = "postgres"
  /\ report.cfg = [host |-> "undefined", port |-> "string"]
  /\ schemas["postgres"]["host"].requiredIf = "true"
  /\ schemas["postgres"]["host"].default = "absent"
  /\ schemas["postgres"]["port"].type = "number"
  /\ Len(report.errors) = 2 /\ ~report.success
  /\ report.errors[1].key = "host" /\ report.errors[2].key = "port"

\* C22: Config.validate({m: cfg}) succeeds exactly when no field of module
\* m's schema is violated by cfg, whatever other schemas are registered.
C22_ValidateDependsOnOwnSchema ==
  (report.op = "validate" /\ HasSchema(schemas, report.module)) =>
    (report.success <=>
       \A k \in SchemaKeys(report.module) :
          schemas[report.module][k] # NoField
            => ~Violated(schemas[report.module][k], report.cfg[k]))

\* the value the resolver is to give a field: the coerced environment
\* string when the variable named by envVar is set, else the default when
\* present, else undefined
ResolvesTo(def, raw, value) ==
  IF def.envVar = "set" /\ raw # Undefined
  THEN CASE def.type = "number" ->
              value = [type |-> "number",
                       text |-> IF raw[1] = "5432" THEN "5432" ELSE "NaN"]
         [] def.type = "boolean" ->
              /\ value.type = "boolean"
              /\ value.text = "true" <=> raw[1] = "true"
              /\ value.text \in {"true", "false"}
         [] OTHER -> value = [type |-> "string", text |-> raw[1]]
  ELSE IF def.default = "present"
       THEN value = [type |-> RuntimeType(def.type), text |-> "default"]
       ELSE value = UndefinedValue

\* the runtime type of a value matches a declared type
TypeMatches(type, value) == type = "custom" \/ value.type = RuntimeType(type)

\* the resolver throws exactly for a module without schema, and a resolved
\* config has the schema's keys, each with the value described
ResolvesAll ==
  /\ report.thrown <=> ~HasSchema(schemas, report.module)
  /\ ~report.thrown =>
       /\ DOMAIN report.config =
            {k \in SchemaKeys(report.module) : schemas[report.module][k] # NoField}
       /\ \A k \in DOMAIN report.config :
            ResolvesTo(schemas[report.module][k], env[report.module][k],
                       report.config[k])

\* C23, as found in the code: the resolved config's key set equals the
\* schema's key set, each value is the coerced environment string, else the
\* default, else undefined, and each value that is not undefined has the
\* runtime type of the declared type.
C23_ResolvedDefinedValuesTyped ==
  report.op = "resolve" =>
    /\ ResolvesAll
    /\ ~report.thrown =>
         \A k \in DOMAIN report.config :
            report.config[k] # UndefinedValue
              => TypeMatches(schemas[report.module][k].type, report.config[k])

C23_Witness ==
  /\ report.op = "resolve" /\ report.module = "postgres" /\ ~report.thrown
  /\ schemas["postgres"]["port"].type = "number"
  /\ env["postgres"]["port"] = <<"true">>
  /\ report.config["port"] = [type |-> "number", text |-> "NaN"]
  /\ schemas["postgres"]["host"].type = "boolean"
  /\ env["postgres"]["host"] = <<"5432">>
  /\ report.config["host"] = [type |-> "boolean", text |-> "false"]

\* C23, as stated: every value of the resolved config, an undefined one
\* included, has the runtime type of the declared type.
C23_ResolvedAllValuesTyped ==
  report.op = "resolve" =>
    /\ ResolvesAll
    /\ ~report.thrown =>
         \A k \in DOMAIN report.config :
            TypeMatches(schemas[report.module][k].type, report.config[k])

\* C24: a connect chain that was suspended in its backoff delay when
\* disconnect() resolved does not make the instance ready afterwards.
C24_NoReconnectAfterDisconnect ==
  [][\A k \in Slots :
       (inst.chains[k].stale /\ inst.chains[k].pc = "attempt"
          /\ inst'.chains[k].pc = "idle")
         => inst'.status # "ready"]_vars

\* C25: the retry budget is per connect() call: a chain that raises, the
\* first of the instance or a later one, has made cap + 1 attempts, cap being
\* the bound the strategy compares its retry counter with.
C25_BudgetPerCall ==
  (inst.cls \in RetryClasses /\ last.op = "attempt" /\ last.outcome = "rejected")
    => last.attempts = RetryCap(inst) + 1

\* C26: chains in flight together do not interfere: on an instance none of
\* whose chains has ended yet, a chain that raises has made its own cap + 1
\* attempts.
C26_OverlappingChainsIndependent ==
  [][\A k \in Slots :
       (inst.cls \in RetryClasses /\ ~inst.errored
          /\ inst.chains[k].pc = "attempt" /\ inst'.chains[k].pc = "idle"
          /\ last'.outcome = "rejected")
         => inst.chains[k].attempts = RetryCap(inst) + 1]_vars

\* C27: a connect chain makes at most maxRetries + 1 attempts (3 + 1 when
\* none is configured) and ends with status ready or status error.
C27_AtMostConfiguredAttempts ==
  /\ \A k \in Slots :
       (inst.cls \in RetryClasses /\ inst.chains[k].pc # "idle")
         => inst.chains[k].attempts <= OrDefault(inst.maxRetries) + 1
  /\ (last.op = "attempt" /\ last.outcome = "fulfilled") => last.to = "ready"
  /\ (last.op = "attempt" /\ last.outcome = "rejected") => last.to = "error"

\* every connect chain ends: it does not stay in an attempt or a backoff
\* delay forever
ChainsEnd ==
  \A k \in 1..MaxChains :
     (inst.chains[k].pc # "idle") ~> (inst.chains[k].pc = "idle")

\* C28: no two records of a collection of the mock backend have the same id.
C28_MockIdsUnique ==
  inst.cls = "mock" =>
    \A c \in Collections :
       \A i, j \in 1..Len(store[c]) :
          i # j => store[c][i].id # store[c][j].id

\* C29: a connect listener is invoked when status is already ready and a
\* disconnect listener when status is already error.  The invocations are
\* those of an emitted event; the call the mock makes when a listener is
\* registered is left out.
C29_ListenerSeesNewState ==
  last.op # "on" =>
    \A i \in 1..Len(last.invoked) :
       last.invoked[i].seen =
         IF last.invoked[i].event = "connect" THEN "ready" ELSE "error"

\* C30: a read with a sort that names a field and no order returns the
\* records in ascending order of that field.
C30_OmittedOrderAscending ==
  (ret.op = "read" /\ ret.outcome = "fulfilled"
     /\ ret.options.sort # NoSort /\ ret.options.sort.order = "absent")
    => \A i \in 1..Len(ret.rows) :
          \A j \in 1..Len(ret.rows) :
             i < j => Key(ret.rows[i], ret.options.sort.field)
                        <= Key(ret.rows[j], ret.options.sort.field)

====
